---- MODULE Spec2Model ----
(***************************************************************************)
(* The RAPPOR client encoder of encoder.cc: parameter validation in the    *)
(* constructor, Bloom filter, PRR and IRR derivation, and the two entry    *)
(* points Encode and _EncodeInternal.                                      *)
(*                                                                         *)
(* Representation.  A Bits value (an unsigned 32-bit integer) is the set   *)
(* of the positions of its 1 bits, a subset of 0 .. BitsWidth-1: AND is    *)
(* intersection, OR is union, ~ is the complement in 0 .. BitsWidth-1 and  *)
(* 1 << i is {i}.  A float probability is a whole number of 1/ProbUnit     *)
(* (1.0f is ProbUnit).  A string is the sequence of its bytes.             *)
(***************************************************************************)
EXTENDS Integers, Sequences, FiniteSets, TLC

VARIABLES
  status,   \* "none": not constructed; "usable": the constructor returned;
            \* "fatal": the constructor hit assert(false)
  params_,  \* Encoder::params_
  deps_,    \* Encoder::deps_ (cohort_, hash_func_, client_secret_, hmac_func_)
  last,     \* the last Encode/_EncodeInternal call: its arguments, what it
            \* returned, what it wrote through its out pointers, the
            \* capability calls it made, and its locals
  first     \* history: one earlier successful call, kept for comparison

vars == <<status, params_, deps_, last, first>>

\* encoder.cc:46, :49
kMaxBits == 32
kMaxHashes == 16

\* Width of Bits (uint32_t).
BitsWidth == 32

\* Resolution of the probabilities: 1.0f is ProbUnit.
ProbUnit == 256

AllBits == 0 .. BitsWidth - 1

\* ~x on a Bits value
BitNot(x) == AllBits \ x

RECURSIVE SumSeq(_)
SumSeq(s) == IF s = <<>> THEN 0 ELSE Head(s) + SumSeq(Tail(s))

(***************************************************************************)
(* The values, secrets and cohorts the model presents.                     *)
(***************************************************************************)

Values == {<<102, 111, 111>>, <<7>>}

Secrets == {<<115, 49>>}

CohortInputs == {-1, 0, 256}

HashFuncs == {"md5", "short"}

HmacFuncs == {"sha256", "trunc"}

(***************************************************************************)
(* The injected capabilities.  hash_func_ and hmac_func_ are deterministic *)
(* functions chosen when Deps is built; the model offers a well-behaved    *)
(* and a misbehaving variant of each.                                      *)
(***************************************************************************)

\* A 16-byte digest (the length of MD5) that depends on every input byte.
Md5Digest(input) ==
  [j \in 1 .. 16 |-> (SumSeq(input) * (2 * j + 1) + 13 * j + Len(input)) % 256]

\* The hash functions as tables over the inputs [0 0 0 c] + value.  "md5"
\* always fills 16 bytes; "short" returns a single byte for inputs whose
\* byte sum is odd.
HashTable ==
  [f \in HashFuncs, input \in {<<0, 0, 0, c>> \o v : c \in 0 .. 255, v \in Values} |->
     IF f = "short" /\ SumSeq(input) % 2 = 1
       THEN SubSeq(Md5Digest(input), 1, 1)
       ELSE Md5Digest(input)]

\* deps_.hash_func_(hash_input, &hash_output)
HashFunc(f, input) == HashTable[f, input]

\* A 32-byte digest (the length of SHA-256) of secret and message.
Sha256Digest(secret, value) ==
  [i \in 1 .. 32 |->
     (SumSeq(secret) * 7 + SumSeq(value) * (i + 2) + 29 * i * i + Len(value)) % 256]

\* The HMAC functions as tables.  "sha256" always fills 32 bytes; "trunc"
\* returns 31 bytes for one-byte messages.
HmacTable ==
  [h \in HmacFuncs, secret \in Secrets, value \in Values |->
     IF h = "trunc" /\ Len(value) = 1
       THEN SubSeq(Sha256Digest(secret, value), 1, 31)
       ELSE Sha256Digest(secret, value)]

\* deps_.hmac_func_(client_secret_, value, &sha256)
HmacFunc(h, secret, value) == HmacTable[h, secret, value]

(***************************************************************************)
(* Construction                                                            *)
(***************************************************************************)

\* CheckValidProbability: TRUE when the probability passes (no assert).
CheckValidProbability_AcceptsZero(prob) == ~(prob < 0 \/ prob > ProbUnit)

CheckValidProbability(prob) == ~(prob <= 0 \/ prob > ProbUnit)

\* The constructor's checks: TRUE when some assert(false) is reached.
ConstructorAsserts(p, d) ==
  \/ p.num_bits_ <= 0
  \/ p.num_hashes_ <= 0
  \/ p.num_cohorts_ <= 0
  \/ p.num_bits_ > kMaxBits
  \/ p.num_hashes_ > kMaxHashes
  \/ d.cohort_ >= p.num_cohorts_
  \/ ~CheckValidProbability(p.prob_f_)
  \/ ~CheckValidProbability(p.prob_p_)
  \/ ~CheckValidProbability(p.prob_q_)

NoOut == [written |-> FALSE, bits |-> {}]

NoCall ==
  [op |-> "none", value |-> <<>>, cohort |-> 0, ret |-> FALSE,
   bloom_out |-> NoOut, prr_out |-> NoOut, irr_out |-> NoOut,
   calls |-> <<>>, bloom |-> {}, prr |-> {}, p_bits |-> {}, q_bits |-> {}]

NoFirst == [set |-> FALSE, value |-> <<>>, cohort |-> 0, prr |-> {}, irr |-> {}]

Init ==
  /\ status = "none"
  /\ params_ = [num_bits_ |-> 0, num_hashes_ |-> 0, num_cohorts_ |-> 0,
                prob_f_ |-> 0, prob_p_ |-> 0, prob_q_ |-> 0]
  /\ deps_ = [cohort_ |-> 0, hash_func_ |-> "md5", client_secret_ |-> <<>>,
              hmac_func_ |-> "sha256"]
  /\ last = NoCall
  /\ first = NoFirst

\* Encoder::Encoder(encoder_id, params, deps)
Construct(p, d) ==
  /\ status = "none"
  /\ params_' = p
  /\ deps_' = d
  /\ status' = IF ConstructorAsserts(p, d) THEN "fatal" ELSE "usable"
  /\ UNCHANGED <<last, first>>

(***************************************************************************)
(* Encoding                                                                *)
(***************************************************************************)

\* One capability call as the encoder made it; ok: the encoder went on.
Call(fn, key, data, prob, width, ok) ==
  [fn |-> fn, key |-> key, data |-> data, prob |-> prob, width |-> width, ok |-> ok]

\* Encoder::MakeBloomFilter with bit_to_set = hash_output[i] % kMaxBits
MakeBloomFilter_ModMaxBits(p, d, value) ==
  LET c == d.cohort_ % 256
      hash_input == <<0, 0, 0, c>> \o value
      hash_output == HashFunc(d.hash_func_, hash_input)
  IN  IF Len(hash_output) < p.num_hashes_
        THEN [ok |-> FALSE, hash_input |-> hash_input, bloom |-> {}]
        ELSE [ok |-> TRUE, hash_input |-> hash_input,
              bloom |-> {hash_output[i + 1] % kMaxBits : i \in 0 .. p.num_hashes_ - 1}]

\* Encoder::MakeBloomFilter(value, bloom_out)
MakeBloomFilter(p, d, value) ==
  LET c == d.cohort_ % 256                        \* deps_.cohort_ & 0xFF
      hash_input == <<0, 0, 0, c>> \o value
      hash_output == HashFunc(d.hash_func_, hash_input)
  IN  IF Len(hash_output) < p.num_hashes_
        THEN [ok |-> FALSE, hash_input |-> hash_input, bloom |-> {}]
        ELSE [ok |-> TRUE, hash_input |-> hash_input,
              bloom |-> {hash_output[i + 1] % p.num_bits_ : i \in 0 .. p.num_hashes_ - 1}]

\* static_cast<uint8_t>(prob_f_ * 128)
Threshold128(prob_f) == ((prob_f * 128) \div ProbUnit) % 256

\* Encoder::GetPrrMasks with rand128 = byte & 0x7f instead of byte >> 1
GetPrrMasks_Low7(p, d, value) ==
  LET sha256 == HmacFunc(d.hmac_func_, d.client_secret_, value)
      threshold128 == Threshold128(p.prob_f_)
  IN  IF Len(sha256) # kMaxBits
        THEN [ok |-> FALSE, uniform |-> {}, f_mask |-> {}]
        ELSE [ok |-> TRUE,
              uniform |-> {i \in 0 .. p.num_bits_ - 1 : sha256[i + 1] % 2 = 1},
              f_mask |-> {i \in 0 .. p.num_bits_ - 1 :
                            sha256[i + 1] % 128 < threshold128}]

\* Encoder::GetPrrMasks(value, uniform_out, f_mask_out)
GetPrrMasks(p, d, value) ==
  LET sha256 == HmacFunc(d.hmac_func_, d.client_secret_, value)
      threshold128 == Threshold128(p.prob_f_)
  IN  IF Len(sha256) # kMaxBits
        THEN [ok |-> FALSE, uniform |-> {}, f_mask |-> {}]
        ELSE [ok |-> TRUE,
              uniform |-> {i \in 0 .. p.num_bits_ - 1 : sha256[i + 1] % 2 = 1},
              f_mask |-> {i \in 0 .. p.num_bits_ - 1 :
                            sha256[i + 1] \div 2 < threshold128}]

\* Bits prr = (bloom & ~f_mask) | (uniform & f_mask)
Prr(bloom, uniform, f_mask) ==
  (bloom \cap BitNot(f_mask)) \cup (uniform \cap f_mask)

\* the IRR with the two masks exchanged
Irr_Swapped(p_bits, q_bits, prr) ==
  (q_bits \cap BitNot(prr)) \cup (p_bits \cap prr)

\* Bits irr = (p_bits & ~prr) | (q_bits & prr)
Irr(p_bits, q_bits, prr) ==
  (p_bits \cap BitNot(prr)) \cup (q_bits \cap prr)

Written(bits) == [written |-> TRUE, bits |-> bits]

\* What one run of _EncodeInternal leaves behind.
Outcome(ret, bloom_out, prr_out, irr_out, calls, bloom, prr, p_bits, q_bits) ==
  [ret |-> ret, bloom_out |-> bloom_out, prr_out |-> prr_out, irr_out |-> irr_out,
   calls |-> calls, bloom |-> bloom, prr |-> prr, p_bits |-> p_bits, q_bits |-> q_bits]

\* _EncodeInternal with the uniform bits of the PRR taken from the randomness
\* source (the first mask drawn) instead of the HMAC digest
EncodeInternal_UniformFromRand(p, d, value, p_res, q_res) ==
  LET b == MakeBloomFilter(p, d, value)
      c1 == Call("hash", <<>>, b.hash_input, 0, 0, b.ok)
  IN
  IF ~b.ok THEN Outcome(FALSE, NoOut, NoOut, NoOut, <<c1>>, {}, {}, {}, {})
  ELSE
  LET m == GetPrrMasks(p, d, value)
      c2 == Call("hmac", d.client_secret_, value, 0, 0, m.ok)
  IN
  IF ~m.ok
    THEN Outcome(FALSE, Written(b.bloom), NoOut, NoOut, <<c1, c2>>, b.bloom, {}, {}, {})
  ELSE
  LET c3 == Call("GetMask", <<>>, <<>>, p.prob_p_, p.num_bits_, p_res.ok)
      c4 == Call("GetMask", <<>>, <<>>, p.prob_q_, p.num_bits_, q_res.ok)
  IN
  IF ~p_res.ok
    THEN Outcome(FALSE, Written(b.bloom), NoOut, NoOut, <<c1, c2, c3>>,
                 b.bloom, {}, {}, {})
  ELSE
  LET prr == Prr(b.bloom, p_res.mask, m.f_mask)
  IN
  IF ~q_res.ok
    THEN Outcome(FALSE, Written(b.bloom), Written(prr), NoOut, <<c1, c2, c3, c4>>,
                 b.bloom, prr, p_res.mask, {})
  ELSE
  LET irr == Irr(p_res.mask, q_res.mask, prr)
  IN  Outcome(TRUE, Written(b.bloom), Written(prr), Written(irr), <<c1, c2, c3, c4>>,
              b.bloom, prr, p_res.mask, q_res.mask)

\* _EncodeInternal with both masks drawn before either result is tested
EncodeInternal_NoEarlyExit(p, d, value, p_res, q_res) ==
  LET b == MakeBloomFilter(p, d, value)
      c1 == Call("hash", <<>>, b.hash_input, 0, 0, b.ok)
  IN
  IF ~b.ok THEN Outcome(FALSE, NoOut, NoOut, NoOut, <<c1>>, {}, {}, {}, {})
  ELSE
  LET m == GetPrrMasks(p, d, value)
      c2 == Call("hmac", d.client_secret_, value, 0, 0, m.ok)
  IN
  IF ~m.ok
    THEN Outcome(FALSE, Written(b.bloom), NoOut, NoOut, <<c1, c2>>, b.bloom, {}, {}, {})
  ELSE
  LET prr == Prr(b.bloom, m.uniform, m.f_mask)
      c3 == Call("GetMask", <<>>, <<>>, p.prob_p_, p.num_bits_, p_res.ok)
      c4 == Call("GetMask", <<>>, <<>>, p.prob_q_, p.num_bits_, q_res.ok)
  IN
  IF ~p_res.ok \/ ~q_res.ok
    THEN Outcome(FALSE, Written(b.bloom), Written(prr), NoOut, <<c1, c2, c3, c4>>,
                 b.bloom, prr, p_res.mask, {})
  ELSE
  LET irr == Irr(p_res.mask, q_res.mask, prr)
  IN  Outcome(TRUE, Written(b.bloom), Written(prr), Written(irr), <<c1, c2, c3, c4>>,
              b.bloom, prr, p_res.mask, q_res.mask)

\* Encoder::_EncodeInternal(value, bloom_out, prr_out, irr_out); p_res and q_res
\* are what deps_.irr_rand_.GetMask returns if it is called a first and a
\* second time.
EncodeInternal(p, d, value, p_res, q_res) ==
  LET b == MakeBloomFilter(p, d, value)
      c1 == Call("hash", <<>>, b.hash_input, 0, 0, b.ok)
  IN
  IF ~b.ok THEN Outcome(FALSE, NoOut, NoOut, NoOut, <<c1>>, {}, {}, {}, {})
  ELSE
  LET m == GetPrrMasks(p, d, value)
      c2 == Call("hmac", d.client_secret_, value, 0, 0, m.ok)
  IN
  IF ~m.ok
    THEN Outcome(FALSE, Written(b.bloom), NoOut, NoOut, <<c1, c2>>, b.bloom, {}, {}, {})
  ELSE
  LET prr == Prr(b.bloom, m.uniform, m.f_mask)
      c3 == Call("GetMask", <<>>, <<>>, p.prob_p_, p.num_bits_, p_res.ok)
      c4 == Call("GetMask", <<>>, <<>>, p.prob_q_, p.num_bits_, q_res.ok)
  IN
  IF ~p_res.ok
    THEN Outcome(FALSE, Written(b.bloom), Written(prr), NoOut, <<c1, c2, c3>>,
                 b.bloom, prr, {}, {})
  ELSE IF ~q_res.ok
    THEN Outcome(FALSE, Written(b.bloom), Written(prr), NoOut, <<c1, c2, c3, c4>>,
                 b.bloom, prr, p_res.mask, {})
  ELSE
  LET irr == Irr(p_res.mask, q_res.mask, prr)
  IN  Outcome(TRUE, Written(b.bloom), Written(prr), Written(irr), <<c1, c2, c3, c4>>,
              b.bloom, prr, p_res.mask, q_res.mask)

\* The masks a randomness source may hand back for a width.
Masks(width) ==
  {{}, 0 .. width - 1, {i \in 0 .. width - 1 : i % 2 = 0}}

\* IrrRandInterface::GetMask(prob, num_bits, mask_out): failure, or a mask.
GetMaskResults(width) ==
  {[ok |-> FALSE, mask |-> {}]} \cup {[ok |-> TRUE, mask |-> m] : m \in Masks(width)}

\* The history keeps at most one successful call, chosen freely.
Remember(keep, r, value) ==
  IF keep /\ r.ret /\ ~first.set
    THEN [set |-> TRUE, value |-> value, cohort |-> deps_.cohort_,
          prr |-> r.prr, irr |-> r.irr_out.bits]
    ELSE first

\* bool Encoder::Encode(value, irr_out): the Bloom filter and the PRR go to
\* locals of Encode, only irr_out is the caller's.
Encode(value, p_res, q_res, keep) ==
  /\ status = "usable"
  /\ \E r \in {EncodeInternal(params_, deps_, value, p_res, q_res)} :
         /\ last' = [op |-> "Encode", value |-> value, cohort |-> deps_.cohort_,
                     ret |-> r.ret,
                     bloom_out |-> NoOut, prr_out |-> NoOut, irr_out |-> r.irr_out,
                     calls |-> r.calls, bloom |-> r.bloom, prr |-> r.prr,
                     p_bits |-> r.p_bits, q_bits |-> r.q_bits]
         /\ first' = Remember(keep, r, value)
  /\ UNCHANGED <<status, params_, deps_>>

\* bool Encoder::_EncodeInternal(value, bloom_out, prr_out, irr_out) called
\* directly (the diagnostic entry point).
EncodeInternalCall(value, p_res, q_res, keep) ==
  /\ status = "usable"
  /\ \E r \in {EncodeInternal(params_, deps_, value, p_res, q_res)} :
         /\ last' = [op |-> "_EncodeInternal", value |-> value,
                     cohort |-> deps_.cohort_, ret |-> r.ret,
                     bloom_out |-> r.bloom_out, prr_out |-> r.prr_out,
                     irr_out |-> r.irr_out,
                     calls |-> r.calls, bloom |-> r.bloom, prr |-> r.prr,
                     p_bits |-> r.p_bits, q_bits |-> r.q_bits]
         /\ first' = Remember(keep, r, value)
  /\ UNCHANGED <<status, params_, deps_>>

\* set_cohort(c): replaces the cohort binding, with no check against
\* num_cohorts.
set_cohort(c) ==
  /\ status = "usable"
  /\ deps_' = [deps_ EXCEPT !.cohort_ = c]
  /\ UNCHANGED <<status, params_, last, first>>

(***************************************************************************)
(* Inputs and specifications                                               *)
(***************************************************************************)

DepsInputs ==
  [cohort_ : CohortInputs, hash_func_ : HashFuncs,
   client_secret_ : Secrets, hmac_func_ : HmacFuncs]

ParamsInputs ==
  [num_bits_ : {7, 32, 33}, num_hashes_ : {2, 16}, num_cohorts_ : {0, 512},
   prob_f_ : {0, 1, ProbUnit \div 4, ProbUnit},
   prob_p_ : {(3 * ProbUnit) \div 4}, prob_q_ : {ProbUnit \div 2}]

\* The steps of a program that builds one encoder and uses it.
NextOver(P, D, C, K) ==
  \/ status = "none" /\ \E p \in P, d \in D : Construct(p, d)
  \/ status = "usable" /\ \E v \in Values, keep \in K :
       \E pr \in GetMaskResults(params_.num_bits_) :
         \E qr \in IF pr.ok THEN GetMaskResults(params_.num_bits_) ELSE {pr} :
           Encode(v, pr, qr, keep)
  \/ status = "usable" /\ \E v \in Values, keep \in K :
       \E pr \in GetMaskResults(params_.num_bits_) :
         \E qr \in IF pr.ok THEN GetMaskResults(params_.num_bits_) ELSE {pr} :
           EncodeInternalCall(v, pr, qr, keep)
  \/ \E c \in C : set_cohort(c)

Next == NextOver(ParamsInputs, DepsInputs, CohortInputs, {FALSE})

Spec == Init /\ [][Next]_vars

\* Construction alone, over every kind of illegal and boundary parameter.
CtorParamsInputs ==
  [num_bits_ : {-1, 0, 1, 7, 8, 12, 32, 33, 64}, num_hashes_ : {-1, 0, 1, 16, 17},
   num_cohorts_ : {-1, 0, 1, 128},
   prob_f_ : {0 - ProbUnit \div 10, 0, 1, ProbUnit, ProbUnit + ProbUnit \div 10},
   prob_p_ : {0 - ProbUnit \div 10, 0, 1, ProbUnit, ProbUnit + ProbUnit \div 10},
   prob_q_ : {0 - ProbUnit \div 10, 0, 1, ProbUnit, ProbUnit + ProbUnit \div 10}]

CtorDepsInputs ==
  [cohort_ : {-1, 0, 1, 127, 128}, hash_func_ : {"md5"},
   client_secret_ : Secrets, hmac_func_ : {"sha256"}]

NextCtor == status = "none" /\ \E p \in CtorParamsInputs, d \in CtorDepsInputs : Construct(p, d)

SpecCtor == Init /\ [][NextCtor]_vars

\* One legal configuration used over and over, with the history kept.
PrrParamsInputs ==
  [num_bits_ : {7}, num_hashes_ : {2}, num_cohorts_ : {2},
   prob_f_ : {ProbUnit \div 4},
   prob_p_ : {(3 * ProbUnit) \div 4}, prob_q_ : {ProbUnit \div 2}]

PrrDepsInputs ==
  [cohort_ : {0, 1}, hash_func_ : HashFuncs,
   client_secret_ : Secrets, hmac_func_ : {"sha256"}]

NextPrr == NextOver(PrrParamsInputs, PrrDepsInputs, {0, 1}, BOOLEAN)

SpecPrr == Init /\ [][NextPrr]_vars

(***************************************************************************)
(* Properties                                                              *)
(***************************************************************************)

NumBitsMultipleOf8 ==
  status = "usable" => params_.num_bits_ % 8 = 0

\* C3: the cohort of a usable encoder is always in [0, num_cohorts).
CohortInRange ==
  status = "usable" =>
    (0 <= deps_.cohort_ /\ deps_.cohort_ < params_.num_cohorts_)

\* C4 (as stated): two successful encodes of the same value on the same
\* encoder give the same PRR, whatever happened in between.
PrrFunctionOfValueAlone ==
  (first.set /\ last.ret /\ last.value = first.value) => last.prr = first.prr

\* C4 (amended): two successful encodes of the same value on the same encoder
\* under the same cohort give the same PRR, whatever the randomness source
\* returned and whatever happened in between.
PrrFunctionOfValueAndCohort ==
  (first.set /\ last.ret /\ last.value = first.value /\ last.cohort = first.cohort)
    => last.prr = first.prr

\* C4 witness: a value encoded twice under one cohort, the second time with a
\* different IRR.
SameValueEncodedAgainWithOtherIrr ==
  /\ first.set /\ last.ret
  /\ last.value = first.value /\ last.cohort = first.cohort
  /\ last.irr_out.bits # first.irr

\* C5: after a successful encode the Bloom filter, the PRR and the IRR have no
\* bit at a position >= num_bits.
BoundedWidth ==
  last.ret =>
    \A x \in {last.bloom, last.prr, last.irr_out.bits,
              last.bloom_out.bits, last.prr_out.bits} :
      \A i \in x : i < params_.num_bits_

\* C5 witness: a successful encode of width 7 whose three masks are not empty.
NarrowEncodeDone ==
  /\ last.ret /\ params_.num_bits_ = 7
  /\ last.bloom # {} /\ last.prr # {} /\ last.irr_out.bits # {}

\* C6: a failed call (made under a cohort in [0, num_cohorts)) writes none of
\* its caller-visible outputs, and the encoder is as it was.
FaultWritesNothing ==
  (last.op # "none" /\ ~last.ret
     /\ 0 <= last.cohort /\ last.cohort < params_.num_cohorts_) =>
    (~last.bloom_out.written /\ ~last.prr_out.written /\ ~last.irr_out.written)

\* C7: every call invokes hash, HMAC, the p-draw (prob_p, num_bits) and the
\* q-draw (prob_q, num_bits) in this order, stops at the first stage that
\* fails, and succeeds exactly when all four went through.
StageOrder ==
  last.op # "none" =>
    LET c == last.calls
        n == Len(c)
    IN  /\ n \in 1 .. 4
        /\ c[1].fn = "hash"
        /\ n >= 2 => (c[1].ok /\ c[2].fn = "hmac")
        /\ n >= 3 => /\ c[2].ok
                     /\ c[3].fn = "GetMask" /\ c[3].prob = params_.prob_p_
                     /\ c[3].width = params_.num_bits_
        /\ n >= 4 => /\ c[3].ok
                     /\ c[4].fn = "GetMask" /\ c[4].prob = params_.prob_q_
                     /\ c[4].width = params_.num_bits_
        /\ n < 4 => ~c[n].ok
        /\ last.ret <=> (n = 4 /\ c[4].ok)
        /\ last.ret => Cardinality({k \in 1 .. n : c[k].fn = "GetMask"}) = 2

\* C7 witness: an Encode that stopped at a failed p-draw.
EncodeStoppedAtPDraw ==
  /\ last.op = "Encode" /\ ~last.ret
  /\ Len(last.calls) = 3 /\ last.calls[3].fn = "GetMask"

\* C8: for a cohort in [0, num_cohorts) the hash input is the 4-byte
\* big-endian encoding of the cohort followed by the value bytes, and the Bloom
\* filter is the OR of the bits digest[j] mod num_bits, j < num_hashes.
BloomFromBigEndianCohort ==
  (last.op # "none" /\ 0 <= last.cohort /\ last.cohort < params_.num_cohorts_) =>
    LET c == last.cohort
        be4 == <<(c \div 16777216) % 256, (c \div 65536) % 256,
                 (c \div 256) % 256, c % 256>>
    IN  /\ last.calls[1].data = be4 \o last.value
        /\ last.calls[1].ok =>
             LET digest == HashFunc(deps_.hash_func_, last.calls[1].data)
             IN  /\ last.bloom = {digest[j + 1] % params_.num_bits_ :
                                    j \in 0 .. params_.num_hashes_ - 1}
                 /\ Cardinality(last.bloom) \in 1 .. params_.num_hashes_

\* C9: in every successful encode, PRR bit i (i < num_bits) is the low bit of
\* d = HMAC(secret, value)[i] when (d >> 1) < floor(prob_f * 128) and the
\* Bloom filter's bit i otherwise; with prob_f = 1.0 the PRR is the digest's
\* low bits, with floor(prob_f * 128) = 0 it is the Bloom filter.
PrrCombination ==
  last.ret =>
    LET sha == HmacFunc(deps_.hmac_func_, deps_.client_secret_, last.value)
        t == (params_.prob_f_ * 128) \div ProbUnit
        low == {i \in 0 .. params_.num_bits_ - 1 : sha[i + 1] % 2 = 1}
    IN  /\ \A i \in 0 .. params_.num_bits_ - 1 :
             (i \in last.prr) <=>
               IF sha[i + 1] \div 2 < t THEN sha[i + 1] % 2 = 1 ELSE i \in last.bloom
        /\ params_.prob_f_ = ProbUnit => last.prr = low
        /\ t = 0 => last.prr = last.bloom

\* C9 witness: a successful encode where one PRR bit comes from the digest and
\* differs from the Bloom bit, and another comes from the Bloom filter.
PrrMixesDigestAndBloom ==
  /\ last.ret
  /\ LET sha == HmacFunc(deps_.hmac_func_, deps_.client_secret_, last.value)
         t == (params_.prob_f_ * 128) \div ProbUnit
     IN  /\ \E i \in 0 .. params_.num_bits_ - 1 :
               sha[i + 1] \div 2 < t /\ ((i \in last.prr) # (i \in last.bloom))
         /\ \E i \in 0 .. params_.num_bits_ - 1 :
               ~(sha[i + 1] \div 2 < t) /\ i \in last.bloom

\* C10: in every successful encode, IRR bit i (i < num_bits) is bit i of the
\* first mask drawn where the PRR bit is 0 and bit i of the second mask drawn
\* where it is 1, and this IRR is what the call writes to irr_out.
IrrCombination ==
  last.ret =>
    /\ last.irr_out.written
    /\ \A i \in 0 .. params_.num_bits_ - 1 :
         (i \in last.irr_out.bits) <=>
           IF i \in last.prr THEN i \in last.q_bits ELSE i \in last.p_bits

\* C10 witness: a successful Encode whose IRR is neither its PRR nor its Bloom
\* filter, drawn from two different masks.
EncodeReturnedIrr ==
  /\ last.op = "Encode" /\ last.ret
  /\ last.p_bits # last.q_bits
  /\ last.irr_out.bits # last.prr /\ last.irr_out.bits # last.bloom
  /\ last.prr # {} /\ last.prr # 0 .. params_.num_bits_ - 1

====
